---- MODULE Spec2Model ----
(***************************************************************************)
(* A model of src-tauri/src/mcp.rs: the registry of MCP server processes   *)
(* (McpState), start_mcp_server, send_mcp_command, McpServer::send_command *)
(* and the two reader threads start_mcp_server spawns per process.         *)
(*                                                                         *)
(* The child processes, their pipes and the clock are the environment.     *)
(* A child is described by the behaviour of its command line (Commands).   *)
(* Time is counted in seconds while a caller sits in recv_timeout.         *)
(***************************************************************************)
EXTENDS Naturals, Sequences, FiniteSets, TLC

\* ------------------------------------------------------------------ bounds

\* Calls to start_mcp_server and send_mcp_command over a run.
MaxCalls == 3

\* ------------------------------------------------------- program constants

\* recv_timeout(Duration::from_secs(5))
Timeout == 5

\* ------------------------------------------------------------- input sets

\* Session identifiers (server_id).
Ids == {"a", "b"}

\* Threads of the runtime on which the two commands run.
Callers == {"t1", "t2"}

\* The command line handed to `sh -c`, by what the resulting process does:
\*   echo    reads a line from stdin and writes it unchanged to stdout, well
\*           within the timeout;
\*   slow    the same, after an arbitrary delay;
\*   silent  runs on and never writes anything;
\*   quit    reads one line and exits without writing;
\*   missing names an executable that does not exist: the shell starts,
\*           writes "not found" to stderr and exits;
\*   banner  writes one line to stdout unasked, text or bytes that are not
\*           UTF-8, then reads one line and exits without writing;
\*   stderr  reads a line and answers it on stderr only.
Commands == {"echo", "slow", "silent", "quit", "missing", "banner", "stderr"}

\* The raw text handed to send_mcp_command, by what serde_json sees in it:
\* whether it is JSON at all, whether the required fields `jsonrpc` and
\* `method` are there, and whether `id` is absent, null or a value.
Messages ==
    { [json |-> TRUE,  jsonrpc |-> TRUE, method |-> TRUE,  id |-> "present"],
      [json |-> TRUE,  jsonrpc |-> TRUE, method |-> TRUE,  id |-> "absent"],
      [json |-> TRUE,  jsonrpc |-> TRUE, method |-> TRUE,  id |-> "null"],
      [json |-> TRUE,  jsonrpc |-> TRUE, method |-> FALSE, id |-> "present"],
      [json |-> FALSE, jsonrpc |-> FALSE, method |-> FALSE, id |-> "absent"] }

NoMsg == [json |-> FALSE, jsonrpc |-> FALSE, method |-> FALSE, id |-> "none"]

\* A line of text on a pipe.  n numbers the lines written to one session's
\* stdin (the texts of distinct sends are distinct); id is the id field of
\* the text.  The shell's diagnostic on stderr is ErrLine.
NoLine == [n |-> 0, id |-> "none"]
ErrLine == [n |-> 0, id |-> "stderr"]
BannerLine == [n |-> 0, id |-> "banner"]
\* Bytes up to a newline that are not UTF-8.
BadLine == [n |-> 0, id |-> "invalid"]

NoServer == [process |-> 0]

VARIABLES
    servers,     \* McpState: id -> McpServer (NoServer: no entry)
    lock,        \* the Mutex around the map: its holder, or "free"
    pc,          \* where each caller is
    req,         \* the request a caller is waiting on a reply for
    last,        \* the call that returned last, and what it returned
    waited,      \* seconds a caller has spent in recv_timeout
    kind,        \* id -> behaviour of the registered process
    alive,       \* id -> the registered process is running
    stdinBuf,    \* id -> lines written to the process and not yet read
    outPipe,     \* id -> lines on the stdout pipe not yet read by the reader
    errPipe,     \* id -> lines on the stderr pipe not yet read by the reader
    chan,        \* id -> the mpsc channel (stdout_tx -> stdout_rx)
    outReader,   \* id -> the stdout reader thread: none, running, done
    errReader,   \* id -> the stderr reader thread: none, running
    errLog,      \* id -> lines the stderr reader printed with eprintln!
    events,      \* id -> lines published on the event stream for stdout
    nextPid,     \* processes spawned so far
    spawned,     \* id -> processes spawned by starts naming id
    started,     \* id -> starts naming id that returned Ok
    written,     \* id -> every line written to the session's stdin
    emitted,     \* id -> every line the process wrote to stdout
    replies,     \* id -> the requests that returned, each with its reply
    calls,       \* calls made so far
    pipeFaults   \* whether Child.stdin/stdout/stderr may come back None

sessionVars == <<kind, alive, stdinBuf, outPipe, errPipe, chan, outReader,
                 errReader, errLog, events, written, emitted, replies>>
callerVars == <<pc, req, last, waited, calls>>
registryVars == <<servers, lock, nextPid, spawned, started>>
vars == <<servers, lock, pc, req, last, waited, kind, alive, stdinBuf,
          outPipe, errPipe, chan, outReader, errReader, errLog, events,
          nextPid, spawned, started, written, emitted, replies, calls,
          pipeFaults>>

NoReq == [id |-> "-", msg |-> NoMsg, line |-> NoLine]
NoResult == [op |-> "none", id |-> "-", cmd |-> "-", msg |-> NoMsg,
             status |-> "none", reply |-> NoLine, line |-> NoLine,
             waited |-> 0]

InitCommon ==
    /\ servers = [i \in Ids |-> NoServer]
    /\ lock = "free"
    /\ pc = [c \in Callers |-> "idle"]
    /\ req = [c \in Callers |-> NoReq]
    /\ last = NoResult
    /\ waited = [c \in Callers |-> 0]
    /\ kind = [i \in Ids |-> "-"]
    /\ alive = [i \in Ids |-> FALSE]
    /\ stdinBuf = [i \in Ids |-> <<>>]
    /\ outPipe = [i \in Ids |-> <<>>]
    /\ errPipe = [i \in Ids |-> <<>>]
    /\ chan = [i \in Ids |-> <<>>]
    /\ outReader = [i \in Ids |-> "none"]
    /\ errReader = [i \in Ids |-> "none"]
    /\ errLog = [i \in Ids |-> <<>>]
    /\ events = [i \in Ids |-> <<>>]
    /\ nextPid = 0
    /\ spawned = [i \in Ids |-> 0]
    /\ started = [i \in Ids |-> 0]
    /\ written = [i \in Ids |-> <<>>]
    /\ emitted = [i \in Ids |-> <<>>]
    /\ replies = [i \in Ids |-> <<>>]
    /\ calls = 0

\* Command::spawn with Stdio::piped() for all three streams: the standard
\* library hands back all three pipes.
Init == InitCommon /\ pipeFaults = FALSE

\* The None arms of child.stdin.take(), child.stdout.take() and
\* child.stderr.take() taken as possible.
InitPipes == InitCommon /\ pipeFaults = TRUE


\* ---------------------------------------------------------------- helpers

\* The check for an existing entry left out.
ContainsKey_Never(id) == FALSE

\* servers.contains_key(&server_id)
ContainsKey(id) == servers[id] # NoServer

\* An entry made up for a key that is not in the map.
GetMut_OrInsert(id) == TRUE

\* servers.get_mut(&server_id) is Some
GetMut(id) == servers[id] # NoServer

\* Every field of JsonRpcMessage taken as optional.
FromStr_Lenient(msg) == msg.json

\* serde_json::from_str::<JsonRpcMessage>(command) is Ok: the text is JSON
\* and holds the two fields that are not Option (jsonrpc, method).
FromStr(msg) == msg.json /\ msg.jsonrpc /\ msg.method

\* An explicit null taken for an id.
IdIsNone_AbsentOnly(msg) == msg.id = "absent"

\* message.id.is_none(): Option<Value> is None for a missing id and for null.
IdIsNone(msg) == msg.id \in {"absent", "null"}

\* Ok("".to_string())
EmptyReply == [n |-> 0, id |-> "empty"]

\* The outcomes of child.<pipe>.take().is_some()
PipeOutcomes == IF pipeFaults THEN BOOLEAN ELSE {TRUE}

\* Every sender of the channel is gone: stdout_tx is dropped when
\* start_mcp_server returns, its clone when the reader thread ends.
Disconnected(id) == outReader[id] # "running"

\* The result of write_all and flush not looked at.
WriteFails_Ignored(id) == FALSE

\* write_all on the ChildStdin fails once the read end is closed.
WriteFails(id) == ~alive[id]

\* The guard dropped before the wait for the reply.
HeldDuringRecv_Released(c) == "free"

\* The lock guard `servers` of send_mcp_command lives until the function
\* returns the result of send_command: the caller holds the lock while it
\* waits.
HeldDuringRecv(c) == c

\* A channel of one slot: the sender waits while the slot is taken.
ChanHasRoom_OneSlot(id) == Len(chan[id]) < 1

\* mpsc::channel() is unbounded: tx.send never waits for room.
ChanHasRoom(id) == TRUE

\* `if let Ok(line) = line`: lines() yields Err for a line that is not
\* UTF-8, and the loop goes on to the next line.
LineOk(line) == line # BadLine

\* A command returns to its caller.  `last` keeps the call and its result,
\* and for a ReplyTimeout the seconds recv_timeout took.
Return(c, op, id, cmd, msg, status, reply, line) ==
    /\ pc' = [pc EXCEPT ![c] = "idle"]
    /\ req' = [req EXCEPT ![c] = NoReq]
    /\ last' = [op |-> op, id |-> id, cmd |-> cmd, msg |-> msg,
                status |-> status, reply |-> reply, line |-> line,
                waited |-> IF status = "ReplyTimeout" THEN waited[c] ELSE 0]
    /\ waited' = [waited EXCEPT ![c] = 0]

\* ------------------------------------------------------------ the commands

\* servers.insert(server_id, McpServer::new(child, stdin, stdout_rx)) with
\* the reader threads spawned just before it.  An entry that was there is
\* replaced: its McpServer is dropped.
Insert(id, cmd, outOk, errOk) ==
    /\ servers' = [servers EXCEPT ![id] = [process |-> nextPid + 1]]
    /\ kind' = [kind EXCEPT ![id] = cmd]
    /\ alive' = [alive EXCEPT ![id] = TRUE]
    /\ stdinBuf' = [stdinBuf EXCEPT ![id] = <<>>]
    /\ outPipe' = [outPipe EXCEPT ![id] = <<>>]
    /\ errPipe' = [errPipe EXCEPT ![id] = <<>>]
    /\ chan' = [chan EXCEPT ![id] = <<>>]
    /\ outReader' = [outReader EXCEPT ![id] = IF outOk THEN "running" ELSE "none"]
    /\ errReader' = [errReader EXCEPT ![id] = IF errOk THEN "running" ELSE "none"]
    /\ errLog' = [errLog EXCEPT ![id] = <<>>]
    /\ events' = [events EXCEPT ![id] = <<>>]
    /\ written' = [written EXCEPT ![id] = <<>>]
    /\ emitted' = [emitted EXCEPT ![id] = <<>>]
    /\ replies' = [replies EXCEPT ![id] = <<>>]
    /\ started' = [started EXCEPT ![id] = @ + 1]

\* start_mcp_server, from taking the lock to its return (the lock guard
\* lives to the end of the function and nothing in it blocks).
StartMcpServer(c, id, cmd) ==
    /\ pc[c] = "idle"
    /\ calls < MaxCalls
    /\ lock = "free"
    /\ calls' = calls + 1
    /\ IF ContainsKey(id)
       THEN /\ Return(c, "start", id, cmd, NoMsg, "DuplicateSession", NoLine, NoLine)
            /\ UNCHANGED <<registryVars, sessionVars>>
       ELSE \E spawnOk \in BOOLEAN, inOk \in PipeOutcomes,
               outOk \in PipeOutcomes, errOk \in PipeOutcomes :
              IF ~spawnOk
              THEN \* cmd.spawn() is Err
                   /\ Return(c, "start", id, cmd, NoMsg, "SpawnFailure", NoLine, NoLine)
                   /\ UNCHANGED <<registryVars, sessionVars>>
              ELSE IF ~inOk
              THEN \* the child runs on; its handle is dropped
                   /\ Return(c, "start", id, cmd, NoMsg, "SpawnFailure", NoLine, NoLine)
                   /\ nextPid' = nextPid + 1
                   /\ spawned' = [spawned EXCEPT ![id] = @ + 1]
                   /\ UNCHANGED <<servers, lock, started, sessionVars>>
              ELSE /\ Return(c, "start", id, cmd, NoMsg, "Ok", NoLine, NoLine)
                   /\ nextPid' = nextPid + 1
                   /\ spawned' = [spawned EXCEPT ![id] = @ + 1]
                   /\ Insert(id, cmd, outOk, errOk)
                   /\ UNCHANGED lock
    /\ UNCHANGED pipeFaults

\* send_mcp_command and McpServer::send_command up to recv_timeout: take
\* the lock, look the server up, parse, write and flush, and either return
\* or start waiting with the lock still held.
SendMcpCommand(c, id, msg) ==
    /\ pc[c] = "idle"
    /\ calls < MaxCalls
    /\ lock = "free"
    /\ calls' = calls + 1
    /\ LET line == [n |-> Len(written[id]) + 1, id |-> msg.id]
       IN IF ~GetMut(id)
          THEN /\ Return(c, "send", id, "-", msg, "SessionNotFound", NoLine, NoLine)
               /\ UNCHANGED <<lock, stdinBuf, written>>
          ELSE IF ~FromStr(msg)
          THEN /\ Return(c, "send", id, "-", msg, "MalformedMessage", NoLine, NoLine)
               /\ UNCHANGED <<lock, stdinBuf, written>>
          ELSE IF WriteFails(id)
          THEN /\ Return(c, "send", id, "-", msg, "WriteFailure", NoLine, NoLine)
               /\ UNCHANGED <<lock, stdinBuf, written>>
          ELSE /\ stdinBuf' = [stdinBuf EXCEPT ![id] = Append(@, line)]
               /\ written' = [written EXCEPT ![id] = Append(@, line)]
               /\ IF IdIsNone(msg)
                  THEN /\ Return(c, "send", id, "-", msg, "Ok", EmptyReply, line)
                       /\ UNCHANGED lock
                  ELSE /\ pc' = [pc EXCEPT ![c] = "recv"]
                       /\ req' = [req EXCEPT ![c] =
                                    [id |-> id, msg |-> msg, line |-> line]]
                       /\ lock' = HeldDuringRecv(c)
                       /\ waited' = [waited EXCEPT ![c] = 0]
                       /\ UNCHANGED last
    /\ UNCHANGED <<servers, nextPid, spawned, started, pipeFaults>>
    /\ UNCHANGED <<kind, alive, outPipe, errPipe, chan, outReader, errReader,
                   errLog, events, emitted, replies>>

\* The line looked at and left on the channel.
Received_Peeked(q) == q

\* What recv_timeout leaves on the channel: the line it returns is taken
\* off the front.
Received(q) == Tail(q)

\* recv_timeout returns Ok(output): the oldest line of the channel.
RecvOk(c) ==
    /\ pc[c] = "recv"
    /\ chan[req[c].id] # <<>>
    /\ Return(c, "send", req[c].id, "-", req[c].msg, "Ok", Head(chan[req[c].id]),
              req[c].line)
    /\ chan' = [chan EXCEPT ![req[c].id] = Received(@)]
    /\ replies' = [replies EXCEPT ![req[c].id] =
                      Append(@, [req |-> req[c].line,
                                 reply |-> Head(chan[req[c].id])])]
    /\ lock' = "free"
    /\ UNCHANGED <<servers, nextPid, spawned, started, calls, pipeFaults>>
    /\ UNCHANGED <<kind, alive, stdinBuf, outPipe, errPipe, outReader,
                   errReader, errLog, events, written, emitted>>

\* The child killed when no reply came.
OnRecvErr_Kill(id) ==
    /\ alive' = [alive EXCEPT ![id] = FALSE]
    /\ UNCHANGED servers

\* The entry taken out of the map when no reply came.
OnRecvErr_Remove(id) ==
    /\ servers' = [servers EXCEPT ![id] = NoServer]
    /\ UNCHANGED alive

\* Err(_) => Err("Timeout waiting for command output"): the entry stays in
\* the map and the child is neither killed nor waited for.
OnRecvErr(id) == UNCHANGED <<servers, alive>>

\* recv_timeout returns Err(Disconnected) as soon as the channel is empty
\* with no sender left; Err(_) becomes "Timeout waiting for command output".
RecvDisconnected(c) ==
    /\ pc[c] = "recv"
    /\ chan[req[c].id] = <<>>
    /\ Disconnected(req[c].id)
    /\ Return(c, "send", req[c].id, "-", req[c].msg, "ReplyTimeout", NoLine,
              req[c].line)
    /\ replies' = [replies EXCEPT ![req[c].id] =
                      Append(@, [req |-> req[c].line, reply |-> NoLine])]
    /\ lock' = "free"
    /\ OnRecvErr(req[c].id)
    /\ UNCHANGED <<nextPid, spawned, started, calls, pipeFaults>>
    /\ UNCHANGED <<kind, stdinBuf, outPipe, errPipe, chan, outReader,
                   errReader, errLog, events, written, emitted>>

\* recv_timeout returns Err(Timeout) once the five seconds are over.
RecvTimeout(c) ==
    /\ pc[c] = "recv"
    /\ chan[req[c].id] = <<>>
    /\ ~Disconnected(req[c].id)
    /\ waited[c] = Timeout
    /\ Return(c, "send", req[c].id, "-", req[c].msg, "ReplyTimeout", NoLine,
              req[c].line)
    /\ replies' = [replies EXCEPT ![req[c].id] =
                      Append(@, [req |-> req[c].line, reply |-> NoLine])]
    /\ lock' = "free"
    /\ OnRecvErr(req[c].id)
    /\ UNCHANGED <<nextPid, spawned, started, calls, pipeFaults>>
    /\ UNCHANGED <<kind, stdinBuf, outPipe, errPipe, chan, outReader,
                   errReader, errLog, events, written, emitted>>

\* A second passes for a caller inside recv_timeout.  An `echo` process
\* and its reader have the line through before the last second is over.
Tick(c) ==
    /\ pc[c] = "recv"
    /\ chan[req[c].id] = <<>>
    /\ ~Disconnected(req[c].id)
    /\ waited[c] < Timeout
    /\ (kind[req[c].id] = "echo"
          /\ (stdinBuf[req[c].id] # <<>> \/ outPipe[req[c].id] # <<>>))
       => waited[c] + 1 < Timeout
    /\ waited' = [waited EXCEPT ![c] = @ + 1]
    /\ UNCHANGED <<pc, req, last, calls, registryVars, sessionVars, pipeFaults>>

\* --------------------------------------------------------- the environment

\* An echoing process reads a line and writes it unchanged to its stdout.
ProcEcho(id) ==
    /\ alive[id]
    /\ kind[id] \in {"echo", "slow"}
    /\ stdinBuf[id] # <<>>
    /\ stdinBuf' = [stdinBuf EXCEPT ![id] = Tail(@)]
    /\ outPipe' = [outPipe EXCEPT ![id] = Append(@, Head(stdinBuf[id]))]
    /\ emitted' = [emitted EXCEPT ![id] = Append(@, Head(stdinBuf[id]))]
    /\ UNCHANGED <<callerVars, registryVars, pipeFaults, kind, alive, errPipe,
                   chan, outReader, errReader, errLog, events, written,
                   replies>>

\* A process that reads one line and exits: its pipes close.
ProcQuit(id) ==
    /\ alive[id]
    /\ kind[id] = "quit" \/ (kind[id] = "banner" /\ emitted[id] # <<>>)
    /\ stdinBuf[id] # <<>>
    /\ stdinBuf' = [stdinBuf EXCEPT ![id] = <<>>]
    /\ alive' = [alive EXCEPT ![id] = FALSE]
    /\ UNCHANGED <<callerVars, registryVars, pipeFaults, kind, outPipe,
                   errPipe, chan, outReader, errReader, errLog, events,
                   written, emitted, replies>>

\* `sh -c <no such executable>`: the shell reports it on stderr and exits.
ProcMissing(id) ==
    /\ alive[id]
    /\ kind[id] = "missing"
    /\ errPipe' = [errPipe EXCEPT ![id] = Append(@, ErrLine)]
    /\ stdinBuf' = [stdinBuf EXCEPT ![id] = <<>>]
    /\ alive' = [alive EXCEPT ![id] = FALSE]
    /\ UNCHANGED <<callerVars, registryVars, pipeFaults, kind, outPipe, chan,
                   outReader, errReader, errLog, events, written, emitted,
                   replies>>

\* A process writes a line to stdout that answers nothing.
ProcBanner(id, line) ==
    /\ alive[id]
    /\ kind[id] = "banner"
    /\ emitted[id] = <<>>
    /\ outPipe' = [outPipe EXCEPT ![id] = Append(@, line)]
    /\ emitted' = [emitted EXCEPT ![id] = Append(@, line)]
    /\ UNCHANGED <<callerVars, registryVars, pipeFaults, kind, alive, stdinBuf,
                   errPipe, chan, outReader, errReader, errLog, events,
                   written, replies>>

\* A process reads a line and writes its answer to stderr.
ProcStderr(id) ==
    /\ alive[id]
    /\ kind[id] = "stderr"
    /\ stdinBuf[id] # <<>>
    /\ stdinBuf' = [stdinBuf EXCEPT ![id] = Tail(@)]
    /\ errPipe' = [errPipe EXCEPT ![id] =
                      Append(@, [n |-> Head(stdinBuf[id]).n, id |-> "stderr"])]
    /\ UNCHANGED <<callerVars, registryVars, pipeFaults, kind, alive, outPipe,
                   chan, outReader, errReader, errLog, events, written,
                   emitted, replies>>

\* The line is read and sent nowhere.
StdoutSinks_Drop(id, line) == UNCHANGED <<chan, events>>

\* The line is sent to the channel twice.
StdoutSinks_Twice(id, line) ==
    /\ chan' = [chan EXCEPT ![id] = Append(Append(@, line), line)]
    /\ UNCHANGED events

\* One channel for the lines of every session.
StdoutSinks_Shared(id, line) ==
    /\ chan' = [chan EXCEPT ![CHOOSE o \in Ids : TRUE] = Append(@, line)]
    /\ UNCHANGED events

\* The sinks of one line read from stdout: tx.send(line), and nothing else.
StdoutSinks(id, line) ==
    /\ chan' = [chan EXCEPT ![id] = Append(@, line)]
    /\ UNCHANGED events

\* One turn of the stdout reader's loop: reader.lines() yields a line, or
\* an error for a line that is not text.
StdoutReader(id) ==
    /\ outReader[id] = "running"
    /\ outPipe[id] # <<>>
    /\ ChanHasRoom(id)
    /\ outPipe' = [outPipe EXCEPT ![id] = Tail(@)]
    /\ IF LineOk(Head(outPipe[id]))
       THEN StdoutSinks(id, Head(outPipe[id]))
       ELSE UNCHANGED <<chan, events>>
    /\ UNCHANGED <<callerVars, registryVars, pipeFaults, kind, alive, stdinBuf,
                   errPipe, outReader, errReader, errLog, written, emitted,
                   replies>>

\* reader.lines() ends: the thread returns and its sender is dropped.
StdoutReaderEof(id) ==
    /\ outReader[id] = "running"
    /\ outPipe[id] = <<>>
    /\ ~alive[id]
    /\ outReader' = [outReader EXCEPT ![id] = "done"]
    /\ UNCHANGED <<callerVars, registryVars, pipeFaults, kind, alive, stdinBuf,
                   outPipe, errPipe, chan, errReader, errLog, events, written,
                   emitted, replies>>

\* A stderr line sent to the channel as well.
StderrSinks_Forward(id, line) ==
    /\ errLog' = [errLog EXCEPT ![id] = Append(@, line)]
    /\ chan' = [chan EXCEPT ![id] = Append(@, line)]
    /\ UNCHANGED events

\* The sink of one line read from stderr: eprintln!, and nothing else.
StderrSinks(id, line) ==
    /\ errLog' = [errLog EXCEPT ![id] = Append(@, line)]
    /\ UNCHANGED <<chan, events>>

\* One turn of the stderr reader's loop: eprintln!("Process error: ...").
\* The thread holds no sender, so its end at the end of the stream changes
\* nothing the program can see and is no step here.
StderrReader(id) ==
    /\ errReader[id] = "running"
    /\ errPipe[id] # <<>>
    /\ errPipe' = [errPipe EXCEPT ![id] = Tail(@)]
    /\ IF LineOk(Head(errPipe[id]))
       THEN StderrSinks(id, Head(errPipe[id]))
       ELSE UNCHANGED <<errLog, chan, events>>
    /\ UNCHANGED <<callerVars, registryVars, pipeFaults, kind, alive, stdinBuf,
                   outPipe, outReader, errReader, written, emitted, replies>>

\* ------------------------------------------------------- the specifications

Next ==
    \/ \E c \in Callers, id \in Ids, cmd \in Commands :
          StartMcpServer(c, id, cmd)
    \/ \E c \in Callers, id \in Ids, msg \in Messages :
          SendMcpCommand(c, id, msg)
    \/ \E c \in Callers : RecvOk(c)
    \/ \E c \in Callers : RecvDisconnected(c)
    \/ \E c \in Callers : RecvTimeout(c)
    \/ \E c \in Callers : Tick(c)
    \/ \E id \in Ids : ProcEcho(id)
    \/ \E id \in Ids : ProcQuit(id)
    \/ \E id \in Ids : ProcMissing(id)
    \/ \E id \in Ids, line \in {BannerLine, BadLine} : ProcBanner(id, line)
    \/ \E id \in Ids : ProcStderr(id)
    \/ \E id \in Ids : StdoutReader(id)
    \/ \E id \in Ids : StdoutReaderEof(id)
    \/ \E id \in Ids : StderrReader(id)

Spec == Init /\ [][Next]_vars

SpecPipes == InitPipes /\ [][Next]_vars

\* The reader of a session's stdout is a thread of its own, spawned by
\* start_mcp_server: it is scheduled, so a step of its loop that stays
\* possible is taken.  Nothing is assumed of callers or of processes.
SpecFair ==
    /\ Init
    /\ [][Next]_vars
    /\ \A id \in Ids : WF_vars(StdoutReader(id)) /\ WF_vars(StdoutReaderEof(id))


\* ------------------------------------------------------------- properties

Registered(id) == servers[id] # NoServer

WellFormed(msg) == msg.json /\ msg.jsonrpc /\ msg.method

Occurrences(seq, x) == Cardinality({i \in DOMAIN seq : seq[i] = x})

\* A step in which a call of start_mcp_server for id runs and returns.
StartStep(id) ==
    calls' = calls + 1 /\ pc' = pc /\ last'.op = "start" /\ last'.id = id

\* A step in which a call of send_mcp_command runs and returns at once.
SendReturnsStep == calls' = calls + 1 /\ pc' = pc /\ last'.op = "send"

\* C1: at most one start per identifier succeeds and at most one process is
\* spawned for it; a start for a registered identifier returns
\* DuplicateSession, spawns nothing and leaves the registry and the session
\* (process, stdin, channel) as they were.
C1_OneStartPerId ==
    /\ [](\A id \in Ids :
            /\ started[id] <= 1
            /\ spawned[id] <= 1
            /\ Registered(id) <=> started[id] = 1
            /\ Registered(id) =>
                 spawned[id] = 1 /\ servers[id].process \in 1..nextPid)
    /\ [][\A id \in Ids :
            (Registered(id) /\ StartStep(id)) =>
               /\ last'.status = "DuplicateSession"
               /\ UNCHANGED <<registryVars, sessionVars>>]_vars

\* A second start for a session that is in use was turned away.
C1_Witness ==
    /\ last.op = "start"
    /\ last.status = "DuplicateSession"
    /\ Registered(last.id)
    /\ spawned[last.id] = 1
    /\ written[last.id] # <<>>

\* C2: no caller blocked in recv_timeout holds the registry lock, so a
\* start or a send on another session can take it.
C2_LockFreeWhileWaiting == \A c \in Callers : pc[c] = "recv" => lock = "free"

\* A well-formed request to a registered `echo` session has returned.
EchoRequestReturned ==
    /\ last.op = "send"
    /\ kind[last.id] = "echo"
    /\ WellFormed(last.msg)
    /\ last.msg.id = "present"

C4_TimeoutOnlyAfterFiveSeconds ==
    (last.status = "ReplyTimeout" /\ kind[last.id] \in {"silent", "quit"})
       => last.waited = Timeout

\* A step in which a notification is sent and the call returns.
NotificationStep == SendReturnsStep /\ last'.msg.id \in {"absent", "null"}

\* C5: a notification (id absent or null) never waits on the channel and
\* takes no line from it; written to a live session it returns the empty
\* reply in the step that writes it.
C5_NotificationReturnsAtOnce ==
    /\ [](\A c \in Callers : pc[c] = "recv" => req[c].msg.id = "present")
    /\ [][NotificationStep =>
            /\ chan' = chan /\ replies' = replies /\ lock' = lock
            /\ (Registered(last'.id) /\ WellFormed(last'.msg)
                  /\ alive[last'.id]) =>
                 /\ last'.status = "Ok"
                 /\ last'.reply = EmptyReply
                 /\ written' = [written EXCEPT ![last'.id] =
                                  Append(@, last'.line)]
                 /\ stdinBuf' = [stdinBuf EXCEPT ![last'.id] =
                                   Append(@, last'.line)]]_vars

\* A notification with a null id returned empty from a process that has
\* written nothing.
C5_Witness ==
    /\ last.op = "send"
    /\ last.msg.id = "null"
    /\ last.status = "Ok"
    /\ last.reply = EmptyReply
    /\ kind[last.id] = "silent"
    /\ emitted[last.id] = <<>>

\* Only requests were written to the session and each got a reply.
OnlyExchanges(id) ==
    /\ kind[id] \in {"echo", "slow"}
    /\ \A k \in DOMAIN written[id] : written[id][k].id = "present"
    /\ \A j \in DOMAIN replies[id] : replies[id][j].reply # NoLine

\* C6: over sequential request/reply exchanges on one session, the j-th
\* reply returned went to the j-th request written and is the line the
\* process wrote in answer to it.
C6_RepliesInRequestOrder ==
    \A id \in Ids :
       OnlyExchanges(id) =>
          \A j \in DOMAIN replies[id] :
             /\ j <= Len(written[id]) /\ j <= Len(emitted[id])
             /\ replies[id][j].req = written[id][j]
             /\ replies[id][j].reply = emitted[id][j]
             /\ emitted[id][j] = written[id][j]

\* Two exchanges in a row on a session.
C6_Witness ==
    \E id \in Ids :
       OnlyExchanges(id) /\ kind[id] = "slow" /\ Len(replies[id]) = 2

\* The lines the stdout reader has read.
StdoutRead(id) == SubSeq(emitted[id], 1, Len(emitted[id]) - Len(outPipe[id]))

\* C7: every line read from a session's stdout is on the event stream for
\* that session and "stdout" exactly once.
C7_EveryStdoutLineOnEventStream ==
    \A id \in Ids :
       \A k \in DOMAIN StdoutRead(id) :
          Occurrences(events[id], StdoutRead(id)[k]) = 1

\* C8: a start whose command names a missing executable fails with
\* SpawnFailure and leaves no entry.
C8_MissingExecutableFails ==
    (last.op = "start" /\ last.cmd = "missing"
       /\ last.status # "DuplicateSession")
       => last.status = "SpawnFailure" /\ ~Registered(last.id)

MalformedStep == SendReturnsStep /\ ~WellFormed(last'.msg)

\* C10: a send of text that does not parse never waits on the channel;
\* it returns MalformedMessage (SessionNotFound for an unknown id) and
\* changes nothing in the registry, the pipes or the channel.
C10_MalformedHasNoEffect ==
    /\ [](\A c \in Callers : pc[c] = "recv" => WellFormed(req[c].msg))
    /\ [][MalformedStep =>
            /\ last'.status \in {"MalformedMessage", "SessionNotFound"}
            /\ Registered(last'.id) => last'.status = "MalformedMessage"
            /\ UNCHANGED <<registryVars, sessionVars>>]_vars

\* JSON without a method was refused while a line waited in the channel.
C10_Witness ==
    /\ last.op = "send"
    /\ last.status = "MalformedMessage"
    /\ last.msg.json /\ ~last.msg.method
    /\ chan[last.id] # <<>>

\* A step in which a call of send_mcp_command for id starts: it returns at
\* once or goes on to wait for its reply.
SendStep(id) ==
    /\ calls' = calls + 1
    /\ \/ pc' = pc /\ last'.op = "send" /\ last'.id = id
       \/ \E c \in Callers : pc[c] = "idle" /\ pc'[c] = "recv" /\ req'[c].id = id

\* C11: a send to an identifier that is not in the registry returns
\* SessionNotFound at once; the step writes to no process, takes no line
\* from any channel and leaves the registry as it was, and no caller ever
\* waits for a reply of an identifier that is not registered.
C11_UnknownSessionHasNoEffect ==
    /\ [](\A c \in Callers : pc[c] = "recv" => Registered(req[c].id))
    /\ [][\A id \in Ids :
            SendStep(id) /\ ~Registered(id)
                => /\ pc' = pc
                   /\ last'.status = "SessionNotFound"
                   /\ last'.reply = NoLine
                   /\ UNCHANGED <<registryVars, sessionVars, replies>>]_vars

\* A send has just returned SessionNotFound while the other session holds
\* what it wrote and a line on its channel.
C11_Witness ==
    /\ last.op = "send"
    /\ last.status = "SessionNotFound"
    /\ ~Registered(last.id)
    /\ \E id \in Ids : Registered(id) /\ chan[id] # <<>> /\ written[id] # <<>>

\* A request of session id has ended in ReplyTimeout.
TimedOut(id) == \E j \in DOMAIN replies[id] : replies[id][j].reply = NoLine

\* A step in which a waiting request returns ReplyTimeout.
TimeoutStep ==
    \E c \in Callers :
        pc[c] = "recv" /\ pc'[c] = "idle" /\ last'.status = "ReplyTimeout"

\* C12 as stated: once a request of a session has ended in ReplyTimeout,
\* every later well-formed send to that session is found and written to
\* the process.
C12_SendAfterTimeoutWrites ==
    (last.op = "send" /\ WellFormed(last.msg) /\ TimedOut(last.id))
        => last.status # "SessionNotFound" /\ last.line # NoLine

\* C12, amended: a ReplyTimeout leaves the entry, the process and its
\* streams as they were; a session that timed out stays registered, a later
\* send to it never returns SessionNotFound, and it writes its message
\* whenever the process is still running.
C12_TimeoutKeepsSession ==
    /\ [](\A id \in Ids : TimedOut(id) => Registered(id))
    /\ [][TimeoutStep
            => UNCHANGED <<servers, kind, alive, stdinBuf, outPipe, errPipe,
                           chan, outReader, errReader, written>>]_vars
    /\ [][\A id \in Ids :
            SendStep(id) /\ TimedOut(id)
                => /\ pc' = pc => last'.status # "SessionNotFound"
                   /\ (alive[id] /\ (pc' # pc \/ WellFormed(last'.msg)))
                        => /\ Len(written'[id]) = Len(written[id]) + 1
                           /\ stdinBuf'[id] =
                                Append(stdinBuf[id],
                                       written'[id][Len(written'[id])])]_vars

\* A request returned a line of a session one of whose earlier requests
\* ended in ReplyTimeout.
C12_Witness ==
    /\ last.op = "send"
    /\ last.status = "Ok"
    /\ last.reply \notin {EmptyReply, NoLine}
    /\ TimedOut(last.id)
    /\ alive[last.id]

\* The callers between the write of their request to session id and the
\* end of their wait for its reply.
Waiters(id) == {c \in Callers : pc[c] = "recv" /\ req[c].id = id}

\* C13: a session never has two sends between write and end of wait, and a
\* line leaves a session's channel only as the reply of the one request
\* that is waiting on that session.
C13_OneWaiterPerSession ==
    /\ [](\A id \in Ids : Cardinality(Waiters(id)) <= 1)
    /\ [][\A id \in Ids :
            chan'[id] # chan[id] /\ Len(chan'[id]) < Len(chan[id])
                => \E c \in Callers :
                     /\ Waiters(id) = {c}
                     /\ pc'[c] = "idle"
                     /\ chan'[id] = Tail(chan[id])
                     /\ last'.reply = Head(chan[id])
                     /\ last'.line = req[c].line]_vars

\* A request waits on a session whose channel holds a line while the
\* other caller is free to issue a command.
C13_Witness ==
    \E c \in Callers :
        /\ pc[c] = "recv"
        /\ chan[req[c].id] # <<>>
        /\ calls < MaxCalls
        /\ \E d \in Callers \ {c} : pc[d] = "idle"

\* The stdout lines of session id returned to its requests, in the order of
\* their return.
Returned(id) ==
    LET ok == SelectSeq(replies[id], LAMBDA r : r.reply # NoLine)
    IN [k \in 1..Len(ok) |-> ok[k].reply]

\* The lines of seq that are text.
TextLines(seq) == SelectSeq(seq, LineOk)

\* C14: the k-th line returned to a request of a session is the k-th text
\* line its process wrote to stdout, so no line is returned twice and none
\* is skipped; what the channel holds is the lines read and not yet
\* returned; a request takes the front line whatever id the line and the
\* request carry.
C14_ReplyIsOldestUnreturnedLine ==
    /\ [](\A id \in Ids :
            /\ Len(Returned(id)) <= Len(TextLines(emitted[id]))
            /\ Returned(id) = SubSeq(TextLines(emitted[id]), 1, Len(Returned(id)))
            /\ Returned(id) \o chan[id] = TextLines(StdoutRead(id)))
    /\ [][\A c \in Callers :
            pc[c] = "recv" /\ pc'[c] = "idle" /\ last'.status = "Ok"
                => /\ chan[req[c].id] # <<>>
                   /\ last'.reply = Head(chan[req[c].id])
                   /\ last'.reply =
                        TextLines(emitted[req[c].id])[Len(Returned(req[c].id)) + 1]]_vars

\* A request got as its reply a line written before any request was: the
\* line its process wrote unasked.
C14_Witness ==
    /\ last.op = "send"
    /\ last.status = "Ok"
    /\ last.msg.id = "present"
    /\ last.line.n = 1
    /\ last.reply = BannerLine

\* The reader of session id has nothing left to do: every line its process
\* wrote to stdout has been read, and if the process has exited the reader
\* has ended.
Drained(id) ==
    /\ Len(StdoutRead(id)) = Len(emitted[id])
    /\ ~alive[id] => outReader[id] # "running"

\* C15: whenever the reader takes a text line off the stdout pipe it puts
\* that line at the back of the session's channel, whether or not a
\* request is waiting and however many lines the channel holds; and the
\* reader always catches up: again and again every line written so far has
\* been read and placed, and after the process has exited the reader has
\* ended.
C15_ReaderNeverBlocked ==
    /\ [][\A id \in Ids :
            (outPipe[id] # <<>> /\ outPipe'[id] = Tail(outPipe[id])
                /\ LineOk(Head(outPipe[id])))
                => chan'[id] = Append(chan[id], Head(outPipe[id]))]_vars
    /\ \A id \in Ids : []<>Drained(id)

\* A line is on the channel of a session no send was ever issued for, and
\* the reader of a session has ended.
C15_Witness ==
    \E id \in Ids :
        /\ written[id] = <<>>
        /\ emitted[id] # <<>>
        /\ chan[id] = emitted[id]
        /\ LineOk(emitted[id][1])
        /\ \A c \in Callers : pc[c] = "idle"
        /\ \E o \in Ids : outReader[o] = "done"

\* The lines of a sequence.
Range(seq) == {seq[i] : i \in DOMAIN seq}

\* The stderr reader takes a line off the stderr pipe of session id.
StderrStep(id) == errPipe[id] # <<>> /\ errPipe'[id] = Tail(errPipe[id])

\* C16: a step of the stderr reader leaves every channel as it was; a line
\* on a channel or returned to a request is a line the process wrote to
\* stdout, never one it wrote to stderr; and a request written to a process
\* that answers on stderr only returns ReplyTimeout, after the full wait.
C16_StderrIsNeverAReply ==
    /\ [][\A id \in Ids : StderrStep(id) => chan' = chan /\ replies' = replies]_vars
    /\ [](\A id \in Ids :
            /\ Range(chan[id]) \subseteq Range(emitted[id])
            /\ Range(Returned(id)) \subseteq Range(emitted[id])
            /\ \A l \in Range(chan[id]) \cup Range(Returned(id)) : l.id # "stderr")
    /\ [](last.reply.id # "stderr")
    /\ []((last.op = "send" /\ Registered(last.id) /\ kind[last.id] = "stderr"
             /\ last.msg.id = "present" /\ last.line # NoLine)
            => last.status = "ReplyTimeout" /\ last.waited = Timeout)

\* A request has returned ReplyTimeout although its process answered it, on
\* stderr, and the answer was read and logged.
C16_Witness ==
    /\ last.op = "send"
    /\ last.status = "ReplyTimeout"
    /\ kind[last.id] = "stderr"
    /\ [n |-> last.line.n, id |-> "stderr"] \in Range(errLog[last.id])
    /\ chan[last.id] = <<>>

\* C17: a send to a registered session whose process has exited returns in
\* the same step, with WriteFailure when its message is well formed; it
\* never waits for a reply, and the step leaves the registry, every
\* channel and every stream as they were.
C17_WriteFailureHasNoEffect ==
    /\ [][\A id \in Ids :
            SendStep(id) /\ Registered(id) /\ ~alive[id]
                => /\ pc' = pc
                   /\ WellFormed(last'.msg) => last'.status = "WriteFailure"
                   /\ UNCHANGED <<registryVars, sessionVars>>]_vars
    /\ [][SendReturnsStep /\ last'.status = "WriteFailure"
            => /\ Registered(last'.id) /\ ~alive[last'.id]
               /\ last'.reply = NoLine
               /\ UNCHANGED <<registryVars, sessionVars>>]_vars
    /\ []((last.op = "send" /\ last.status = "WriteFailure")
            => Registered(last.id))

\* A send has returned WriteFailure while the channel of its session holds
\* a line, which is still there.
C17_Witness ==
    /\ last.op = "send"
    /\ last.status = "WriteFailure"
    /\ last.msg.id = "present"
    /\ Registered(last.id)
    /\ chan[last.id] # <<>>
    /\ \A c \in Callers : pc[c] = "idle"

\* C18: no step changes or removes an entry of the registry; a start that
\* names a session whose process has exited returns DuplicateSession, and a
\* send to such a session never returns SessionNotFound.
C18_RegistryOnlyGrows ==
    /\ [][\A id \in Ids : Registered(id) => servers'[id] = servers[id]]_vars
    /\ [][\A id \in Ids :
            Registered(id) /\ ~alive[id] /\ StartStep(id)
                => last'.status = "DuplicateSession"]_vars
    /\ [][\A id \in Ids :
            Registered(id) /\ ~alive[id] /\ SendStep(id) /\ pc' = pc
                => last'.status # "SessionNotFound"]_vars

\* A start has returned DuplicateSession for a session whose process has
\* exited, whose stdout reader has ended and one of whose requests ended in
\* ReplyTimeout.
C18_Witness ==
    /\ last.op = "start"
    /\ last.status = "DuplicateSession"
    /\ Registered(last.id)
    /\ ~alive[last.id]
    /\ outReader[last.id] = "done"
    /\ TimedOut(last.id)

\* A step of a send addressed to session id: the call starts, or its wait
\* for the reply ends.
SendActs(id) ==
    \/ SendStep(id)
    \/ \E c \in Callers : pc[c] = "recv" /\ req[c].id = id /\ pc'[c] = "idle"

\* C19: a step of a send addressed to one session leaves the stdin, the
\* channel, the process and the registry entry of every other session as
\* they were, and the lines a session's channel has held and its requests
\* have got are lines of that session's own process.
C19_SendTouchesOnlyItsSession ==
    /\ [][\A id \in Ids :
            SendActs(id)
                => \A o \in Ids \ {id} :
                     /\ stdinBuf'[o] = stdinBuf[o]
                     /\ written'[o] = written[o]
                     /\ chan'[o] = chan[o]
                     /\ replies'[o] = replies[o]
                     /\ servers'[o] = servers[o]
                     /\ alive'[o] = alive[o]
                     /\ outReader'[o] = outReader[o]]_vars
    /\ [](\A id \in Ids :
            /\ Len(Returned(id)) + Len(chan[id]) <= Len(emitted[id])
            /\ Range(Returned(id)) \cup Range(chan[id]) \subseteq Range(emitted[id]))
    /\ []((last.op = "send" /\ last.status = "Ok" /\ last.reply # EmptyReply)
            => last.reply \in Range(emitted[last.id]))

\* A request has got a line of its own session while the channel of the
\* other session holds a line and that session has had nothing written.
C19_Witness ==
    /\ last.op = "send"
    /\ last.status = "Ok"
    /\ last.reply # EmptyReply
    /\ \E o \in Ids \ {last.id} :
          /\ chan[o] # <<>>
          /\ chan[o] = emitted[o]
          /\ written[o] = <<>>

====
